---- MODULE Spec2Model ----
(***************************************************************************)
(* fusion2urdf: the name manager (utils/name_manager.py), the joint        *)
(* extractor (core/Joint.py), the mesh duplication/export helpers          *)
(* (utils/utils.py) and the export run (URDF_Exporter.py).                 *)
(*                                                                         *)
(* Names are TLA+ strings; a character is a string of length one.          *)
(* Occurrence names are only ever used as dictionary keys, so an           *)
(* occurrence is a number 1..MaxOccs.                                      *)
(***************************************************************************)
EXTENDS Integers, Sequences, FiniteSets, TLC

VARIABLES
    name_manager,     \* the NameManager of the run
    ret,              \* what the last resolver call returned
    last,             \* which resolver operation the last call was
    issued,           \* the first resolutions in call order
    scene,            \* which design the host holds (an index into Scenes)
    njoints,          \* len(root.joints)
    comp_names,       \* the current name of every component of the design
    all_occs,         \* root.occurrences: the component of every occurrence
    pc,               \* where the run is
    msg,              \* the status message
    seen,             \* the joints make_joints_dict has read so far, in order
    broke,            \* whether make_joints_dict left its loop by break
    joints_dict,      \* the mapping make_joints_dict builds
    inertial_dict,    \* the keys of the link mapping, in insertion order
    calls,            \* the output functions run() has invoked, in order
    shown,            \* the texts of the message boxes shown, in order
    exported_meshes,  \* export_stl's set of exported mesh names
    export_pos,       \* how many occurrences export_stl has visited
    export_log        \* what export_stl did at each occurrence visited

nmVars     == <<name_manager, ret, last, issued>>
sceneVars  == <<scene, njoints>>
designVars == <<comp_names, all_occs>>
jointVars  == <<msg, seen, broke, joints_dict>>
runVars    == <<inertial_dict, calls, shown, exported_meshes, export_pos,
               export_log>>
vars       == <<name_manager, ret, last, issued, scene, njoints, comp_names,
                all_occs, pc, msg, seen, broke, joints_dict, inertial_dict,
                calls, shown, exported_meshes, export_pos, export_log>>

(* ---------------------------------------------------------------- bounds *)

\* number of occurrences the callers may resolve
MaxOccs == 3

\* number of distinct component names whose mesh name may be memoized
MaxMesh == 1

\* number of joints of the design make_joints_dict is run on
MaxJoints == 3

\* number of joints of the design a whole run is made on
MaxRunJoints == 2

Occs == 1..MaxOccs

\* component display names the host may hand over (raw, uncleaned)
CompNames == {"arm", "Arm:1", "Base_Link,", "base_link v2"}

\* Python's None (no cleaned name contains an upper-case letter)
None == "<None>"

(* ------------------------------------------------------- string helpers *)

Char(s, i) == SubSeq(s, i, i)

\* str.lower() on one character
LowerTable ==
    [A |-> "a", B |-> "b", C |-> "c", D |-> "d", E |-> "e", F |-> "f", G |-> "g",
     H |-> "h", I |-> "i", J |-> "j", K |-> "k", L |-> "l", M |-> "m", N |-> "n",
     O |-> "o", P |-> "p", Q |-> "q", R |-> "r", S |-> "s", T |-> "t", U |-> "u",
     V |-> "v", W |-> "w", X |-> "x", Y |-> "y", Z |-> "z"]

LowerChar(c) == IF c \in DOMAIN LowerTable THEN LowerTable[c] ELSE c

RECURSIVE lower(_)
lower(s) ==
    IF s = "" THEN "" ELSE LowerChar(Char(s, 1)) \o lower(SubSeq(s, 2, Len(s)))

\* name.replace(',', '')
RECURSIVE RemoveCommas(_)
RemoveCommas(s) ==
    IF s = "" THEN ""
    ELSE (IF Char(s, 1) = "," THEN "" ELSE Char(s, 1))
         \o RemoveCommas(SubSeq(s, 2, Len(s)))

\* re.sub('[ :()]', '_', s)
RECURSIVE ReplaceSeparators(_)
ReplaceSeparators(s) ==
    IF s = "" THEN ""
    ELSE (IF Char(s, 1) \in {" ", ":", "(", ")"} THEN "_" ELSE Char(s, 1))
         \o ReplaceSeparators(SubSeq(s, 2, Len(s)))

\* re.sub('_+', '_', s)
RECURSIVE CollapseUnderscores(_)
CollapseUnderscores(s) ==
    IF Len(s) < 2 THEN s
    ELSE IF Char(s, 1) = "_" /\ Char(s, 2) = "_"
         THEN CollapseUnderscores(SubSeq(s, 2, Len(s)))
         ELSE Char(s, 1) \o CollapseUnderscores(SubSeq(s, 2, Len(s)))

\* s.strip('_')
RECURSIVE StripUnderscores(_)
StripUnderscores(s) ==
    IF s = "" THEN ""
    ELSE IF Char(s, 1) = "_" THEN StripUnderscores(SubSeq(s, 2, Len(s)))
    ELSE IF Char(s, Len(s)) = "_" THEN StripUnderscores(SubSeq(s, 1, Len(s) - 1))
    ELSE s

\* NameManager.clean_name
clean_name(name) ==
    lower(StripUnderscores(CollapseUnderscores(ReplaceSeparators(RemoveCommas(name)))))

\* component_name.split()[0]: the first whitespace-delimited token
RECURSIVE FirstToken(_)
FirstToken(s) ==
    IF s = "" THEN ""
    ELSE IF Char(s, 1) = " " THEN FirstToken(SubSeq(s, 2, Len(s)))
    ELSE LET rest == SubSeq(s, 2, Len(s))
         IN  IF rest = "" \/ Char(rest, 1) = " " THEN Char(s, 1)
             ELSE Char(s, 1) \o FirstToken(rest)

\* is_base_link (Joint.py and utils.py hold the same function)
is_base_link(component_name) == lower(FirstToken(component_name)) = "base_link"

\* s.startswith(prefix)
StartsWith(s, prefix) ==
    Len(s) >= Len(prefix) /\ SubSeq(s, 1, Len(prefix)) = prefix

\* part in s
Contains(s, part) ==
    \E i \in 1..(Len(s) - Len(part) + 1) : SubSeq(s, i, i + Len(part) - 1) = part

\* f"{base_name}_{n}"
Suffixed(base_name, n) == base_name \o "_" \o ToString(n)

(* --------------------------------------------------------- NameManager *)

\* NameManager.__init__
NewNameManager ==
    [link_name_map     |-> <<>>,
     link_name_counts  |-> <<>>,
     used_names        |-> {},
     component_to_mesh |-> <<>>]

\* d[k] = v on a dictionary held as a function
Put(d, k, v) == [x \in DOMAIN d \cup {k} |-> IF x = k THEN v ELSE d[x]]

\* NameManager.get_link_name_for_occurrence
get_link_name_for_occurrence(nm, occurrence_name) ==
    IF occurrence_name \in DOMAIN nm.link_name_map
    THEN nm.link_name_map[occurrence_name]
    ELSE None

\* PickName with the counter read but not incremented
PickName_NoIncrement(nm, base_name) ==
    IF base_name = "base_link" /\ "base_link" \notin nm.used_names
    THEN [name |-> "base_link", count |-> -1]
    ELSE IF base_name \in DOMAIN nm.link_name_counts
    THEN [name  |-> Suffixed(base_name, nm.link_name_counts[base_name]),
          count |-> nm.link_name_counts[base_name] + 1]
    ELSE IF base_name \in nm.used_names
    THEN [name |-> Suffixed(base_name, 1), count |-> 1]
    ELSE [name |-> base_name, count |-> 0]

\* PickName handing out base_link without looking at used_names
PickName_AlwaysBase(nm, base_name) ==
    IF base_name = "base_link"
    THEN [name |-> "base_link", count |-> -1]
    ELSE IF base_name \in DOMAIN nm.link_name_counts
    THEN [name  |-> Suffixed(base_name, nm.link_name_counts[base_name] + 1),
          count |-> nm.link_name_counts[base_name] + 1]
    ELSE IF base_name \in nm.used_names
    THEN [name |-> Suffixed(base_name, 1), count |-> 1]
    ELSE [name |-> base_name, count |-> 0]

\* the name get_unique_link_name picks for an occurrence not yet in the map,
\* and the counter it leaves for the base name (None: counter untouched)
PickName(nm, base_name) ==
    IF base_name = "base_link" /\ "base_link" \notin nm.used_names
    THEN [name |-> "base_link", count |-> -1]
    ELSE IF base_name \in DOMAIN nm.link_name_counts
    THEN [name  |-> Suffixed(base_name, nm.link_name_counts[base_name] + 1),
          count |-> nm.link_name_counts[base_name] + 1]
    ELSE IF base_name \in nm.used_names
    THEN [name |-> Suffixed(base_name, 1), count |-> 1]
    ELSE [name |-> base_name, count |-> 0]

\* get_unique_link_name without the lookup of lines 85-86
get_unique_link_name_NoMemo(nm, occurrence_name, component_name) ==
    LET base_name == clean_name(component_name)
        pick      == PickName(nm, base_name)
    IN  [nm |-> [nm EXCEPT
                   !.link_name_map = Put(@, occurrence_name, pick.name),
                   !.link_name_counts =
                       IF pick.count < 0 THEN @
                       ELSE Put(@, base_name, pick.count),
                   !.used_names = @ \cup {pick.name}],
         ret |-> pick.name]

\* NameManager.get_unique_link_name: the manager after the call and the
\* returned name
get_unique_link_name(nm, occurrence_name, component_name) ==
    IF occurrence_name \in DOMAIN nm.link_name_map
    THEN [nm |-> nm, ret |-> nm.link_name_map[occurrence_name]]
    ELSE LET base_name == clean_name(component_name)
             pick      == PickName(nm, base_name)
         IN  [nm |-> [nm EXCEPT
                        !.link_name_map = Put(@, occurrence_name, pick.name),
                        !.link_name_counts =
                            IF pick.count < 0 THEN @
                            ELSE Put(@, base_name, pick.count),
                        !.used_names = @ \cup {pick.name}],
              ret |-> pick.name]

\* get_mesh_filename naming the mesh as the next link of the component
get_mesh_filename_Suffixed(nm, component_name) ==
    IF component_name \in DOMAIN nm.component_to_mesh
    THEN [nm |-> nm, ret |-> nm.component_to_mesh[component_name]]
    ELSE LET mesh_name == PickName(nm, clean_name(component_name)).name
         IN  [nm |-> [nm EXCEPT !.component_to_mesh =
                                    Put(@, component_name, mesh_name)],
              ret |-> mesh_name]

\* NameManager.get_mesh_filename
get_mesh_filename(nm, component_name) ==
    IF component_name \in DOMAIN nm.component_to_mesh
    THEN [nm |-> nm, ret |-> nm.component_to_mesh[component_name]]
    ELSE LET mesh_name == clean_name(component_name)
         IN  [nm |-> [nm EXCEPT !.component_to_mesh =
                                    Put(@, component_name, mesh_name)],
              ret |-> mesh_name]

\* NameManager.get_unique_joint_name
get_unique_joint_name(joint_name) == clean_name(joint_name)

(* -------------------------------------------------------------- numbers *)
(* An input length, angle or axis component is an integer number of 1e-7  *)
(* (cm, rad or unitless); a stored value is an integer number of 1e-6.    *)
(* The input sets hold no value that lies exactly between two stored      *)
(* values.                                                                *)

Abs(x) == IF x < 0 THEN -x ELSE x

\* x / d rounded to the nearest integer, halves to the even neighbour
RoundHalfEven(x, d) ==
    LET q == x \div d
        r == x % d
    IN  IF 2 * r < d THEN q
        ELSE IF 2 * r > d THEN q + 1
        ELSE IF q % 2 = 0 THEN q ELSE q + 1

\* round(i, 6)
Round6(x) == RoundHalfEven(x, 10)

\* round(i / 100.0, 6)
Round6Div100(x) == RoundHalfEven(x, 1000)

\* the tolerance of allclose, 1e-6, in input units
Tol == 10

\* allclose(v1, v2, tol=1e-6)
allclose(v1, v2) == \A i \in 1..3 : Abs(v1[i] - v2[i]) < Tol

\* trans(M, a): M a 16 element array (row major), a a 3D vector
trans(M, a) ==
    [i \in 1..3 |->
        a[1] * M[4 * (i - 1) + 1] + a[2] * M[4 * (i - 1) + 2]
        + a[3] * M[4 * (i - 1) + 3] + M[4 * (i - 1) + 4]]

\* transform.translation.asArray()
translation(M) == <<M[4], M[8], M[12]>>

(* ------------------------------------------------------------ the design *)
(* A design is flat: every occurrence is a child of the root component.    *)

\* 1 cm in input units
Cm == 10 * 1000000

Identity == <<1, 0, 0, 0,   0, 1, 0, 0,   0, 0, 1, 0,   0, 0, 0, 1>>

\* moved 10 cm along x
Shifted == <<1, 0, 0, 10 * Cm,   0, 1, 0, 0,   0, 0, 1, 0,   0, 0, 0, 1>>

\* turned a quarter about z and moved 5 cm along y
Turned == <<0, -1, 0, 0,   1, 0, 0, 5 * Cm,   0, 0, 1, 0,   0, 0, 0, 1>>

\* a joint as the host hands it over; avail tells which of the origin reads
\* succeed: "both" (lines 245-249), "two" (only the fallback of lines
\* 264-267), "none" (neither)
Joint(name, jointType, maxEnabled, minEnabled, one, two, avail) ==
    [name                  |-> name,
     jointType             |-> jointType,
     isMaximumValueEnabled |-> maxEnabled,
     isMinimumValueEnabled |-> minEnabled,
     maximumValue          |-> 15707963,
     minimumValue          |-> -7853982,
     axisVector            |-> <<0, 0, 10000000>>,
     occurrenceOne         |-> one,
     occurrenceTwo         |-> two,
     avail                 |-> avail,
     originOne             |-> <<0, 2 * Cm, 0>>,
     originTwo             |-> <<3 * Cm, 0, 12345>>]

\* the joint with other origin points: one relative to occurrenceOne, two
\* relative to occurrenceTwo
WithOrigins(joint, one, two) ==
    [joint EXCEPT !.originOne = one, !.originTwo = two]

\* a point relative to the parent, and where the child occurrence of the
\* sixth design lies
Point == <<3 * Cm, 0, 12345>>
ChildAt == <<10 * Cm, 0, 0>>

\* <<origin relative to the child, origin relative to the parent>>: equal,
\* closer than the tolerance, apart by the tolerance or more on one axis, the
\* parent-relative point at the child's translation, and far from both
OriginPairs ==
    {<<Point, Point>>,
     <<<<Point[1] + 9, Point[2] - 9, Point[3]>>, Point>>,
     <<<<Point[1] + 10, Point[2], Point[3]>>, Point>>,
     <<<<Point[1], Point[2], Point[3] - 11>>, Point>>,
     <<<<0, 2 * Cm, 0>>, <<ChildAt[1], ChildAt[2] + 5, ChildAt[3] - 9>>>>,
     <<<<0, 2 * Cm, 0>>, <<ChildAt[1], ChildAt[2] + 10, ChildAt[3]>>>>,
     <<<<0, 2 * Cm, 0>>, Point>>}

\* a rigid joint, and revolute and slider joints with every setting of the
\* two limit flags
Motions ==
    {<<"Rigid 1", 0, FALSE, FALSE>>}
    \cup {<<"Rev 1", 1, mx, mn>> : mx \in BOOLEAN, mn \in BOOLEAN}
    \cup {<<"Slider:2", 2, mx, mn>> : mx \in BOOLEAN, mn \in BOOLEAN}

\* the designs: the name and the body count of each component, the component
\* and the transform of each occurrence, and the joints root.joints may hold
Scenes == <<
    \* a versioned base link and two occurrences of one component; every
    \* pair of occurrences joined by a rigid joint
    [cname     |-> <<"base_link v2", "arm">>,
     bodies    |-> <<1, 1>>,
     component |-> <<1, 2, 2>>,
     transform |-> <<Identity, Shifted, Turned>>,
     joints    |-> {Joint("Rigid 1", 0, FALSE, FALSE, one, two, av) :
                        one \in 1..3, two \in 1..3, av \in {"both", "none"}}
                    \ {Joint("Rigid 1", 0, FALSE, FALSE, o, o, av) :
                        o \in 1..3, av \in {"both", "none"}}],
    \* two links, every supported motion, with and without an origin
    [cname     |-> <<"Base_Link,", "Arm:1">>,
     bodies    |-> <<1, 1>>,
     component |-> <<1, 2>>,
     transform |-> <<Identity, Shifted>>,
     joints    |-> {Joint(m[1], m[2], m[3], m[4], 2, 1, av) :
                        m \in Motions, av \in {"both", "none"}}],
    \* rigid and unsupported joints whose origin is read in each of the
    \* three ways; the last component has no body
    [cname     |-> <<"base_link", "arm", "Arm:1">>,
     bodies    |-> <<1, 1, 0>>,
     component |-> <<1, 2, 3>>,
     transform |-> <<Identity, Shifted, Turned>>,
     joints    |-> {Joint("Rigid 1", t, FALSE, FALSE, p[1], p[2], av) :
                        t \in {0, 3}, p \in {<<2, 1>>, <<3, 2>>},
                        av \in {"both", "two", "none"}}],
    \* no base link
    [cname     |-> <<"arm", "Arm:1">>,
     bodies    |-> <<1, 1>>,
     component |-> <<1, 2>>,
     transform |-> <<Identity, Shifted>>,
     joints    |-> {Joint("Rigid 1", 0, FALSE, FALSE, 2, 1, av) :
                        av \in {"both", "none"}}],
    \* two occurrences of the base link and two of another component;
    \* joints whose names differ and clean to one key
    [cname     |-> <<"base_link", "arm">>,
     bodies    |-> <<1, 1>>,
     component |-> <<1, 1, 2, 2>>,
     transform |-> <<Identity, Shifted, Turned, Shifted>>,
     joints    |-> {Joint(n, 0, FALSE, FALSE, 3, 1, av) :
                        n \in {"Rigid 1", "rigid:1"}, av \in {"both", "none"}}],
    \* a turned and moved parent, and joints with each relation between
    \* the origin points
    [cname     |-> <<"base_link", "arm">>,
     bodies    |-> <<1, 1>>,
     component |-> <<1, 2>>,
     transform |-> <<Shifted, Turned>>,
     joints    |-> {WithOrigins(Joint("Rigid 1", 0, FALSE, FALSE, 1, 2, "both"),
                                p[1], p[2]) : p \in OriginPairs}]
    >>

(* -------------------------------------------------------- make_joints_dict *)

success_msg == "Successfully create URDF file"

\* joint_type_list
joint_type_list ==
    <<"fixed", "revolute", "prismatic", "Cylinderical", "PinSlot", "Planner", "Ball">>

joint_type(joint) == joint_type_list[joint.jointType + 1]

Limited(joint) == joint_type(joint) \in {"revolute", "prismatic"}

\* LimitError with the two messages exchanged
LimitError_Swapped(joint) ==
    IF ~Limited(joint) THEN None
    ELSE IF joint.isMaximumValueEnabled /\ ~joint.isMinimumValueEnabled
    THEN joint.name \o " is not set its upper limit. Please set it and try again."
    ELSE IF ~joint.isMaximumValueEnabled /\ joint.isMinimumValueEnabled
    THEN joint.name \o " is not set its lower limit. Please set it and try again."
    ELSE None

\* the limit branches that break out of the loop (lines 172-177, 189-194)
LimitError(joint) ==
    IF ~Limited(joint) THEN None
    ELSE IF joint.isMaximumValueEnabled /\ ~joint.isMinimumValueEnabled
    THEN joint.name \o " is not set its lower limit. Please set it and try again."
    ELSE IF ~joint.isMaximumValueEnabled /\ joint.isMinimumValueEnabled
    THEN joint.name \o " is not set its upper limit. Please set it and try again."
    ELSE None

\* MotionFields leaving a revolute joint without limits a revolute joint
MotionFields_KeepsType(joint) ==
    LET both == joint.isMaximumValueEnabled /\ joint.isMinimumValueEnabled
    IN  [type |-> joint_type(joint),
         axis |-> IF Limited(joint)
                  THEN [i \in 1..3 |-> Round6(joint.axisVector[i])]
                  ELSE <<0, 0, 0>>,
         upper_limit |->
             IF joint_type(joint) = "revolute" /\ both
             THEN Round6(joint.maximumValue)
             ELSE IF joint_type(joint) = "prismatic" /\ both
             THEN Round6Div100(joint.maximumValue)
             ELSE 0,
         lower_limit |->
             IF joint_type(joint) = "revolute" /\ both
             THEN Round6(joint.minimumValue)
             ELSE IF joint_type(joint) = "prismatic" /\ both
             THEN Round6Div100(joint.minimumValue)
             ELSE 0]

\* type, axis and limits of the record (lines 154-196)
MotionFields(joint) ==
    LET both == joint.isMaximumValueEnabled /\ joint.isMinimumValueEnabled
        none == ~joint.isMaximumValueEnabled /\ ~joint.isMinimumValueEnabled
    IN  [type |-> IF joint_type(joint) = "revolute" /\ none
                  THEN "continuous" ELSE joint_type(joint),
         axis |-> IF Limited(joint)
                  THEN [i \in 1..3 |-> Round6(joint.axisVector[i])]
                  ELSE <<0, 0, 0>>,
         upper_limit |->
             IF joint_type(joint) = "revolute" /\ both
             THEN Round6(joint.maximumValue)
             ELSE IF joint_type(joint) = "prismatic" /\ both
             THEN Round6Div100(joint.maximumValue)
             ELSE 0,
         lower_limit |->
             IF joint_type(joint) = "revolute" /\ both
             THEN Round6(joint.minimumValue)
             ELSE IF joint_type(joint) = "prismatic" /\ both
             THEN Round6Div100(joint.minimumValue)
             ELSE 0]

\* lookup, then get_unique_link_name when the lookup gave None
\* (lines 204-206 and 209-211)
LookupOrResolve(nm, o, c) ==
    IF get_link_name_for_occurrence(nm, o) # None
    THEN [nm |-> nm, ret |-> get_link_name_for_occurrence(nm, o)]
    ELSE get_unique_link_name(nm, o, c)

\* ResolveEnds taking the parent from occurrenceOne and the child from
\* occurrenceTwo
ResolveEnds_Swapped(nm, joint, comps) ==
    LET two == joint.occurrenceOne
        one == joint.occurrenceTwo
        p   == IF is_base_link(comps[two])
               THEN [nm |-> nm, ret |-> "base_link"]
               ELSE LookupOrResolve(nm, two, comps[two])
        c   == LookupOrResolve(p.nm, one, comps[one])
    IN  [nm |-> c.nm, parent |-> p.ret, child |-> c.ret]

\* parent and child of the record and the manager afterwards (lines 199-212)
ResolveEnds(nm, joint, comps) ==
    LET two == joint.occurrenceTwo
        one == joint.occurrenceOne
        p   == IF is_base_link(comps[two])
               THEN [nm |-> nm, ret |-> "base_link"]
               ELSE LookupOrResolve(nm, two, comps[two])
        c   == LookupOrResolve(p.nm, one, comps[one])
    IN  [nm |-> c.nm, parent |-> p.ret, child |-> c.ret]

\* xyz_of_joint without the comparison with the child's translation
xyz_of_joint_NoCase2(joint, transforms) ==
    LET xyz_from_one_to_joint == joint.originOne
        xyz_from_two_to_joint == joint.originTwo
        M_two                 == transforms[joint.occurrenceTwo]
        case1 == allclose(xyz_from_two_to_joint, xyz_from_one_to_joint)
    IN  IF case1 THEN xyz_from_two_to_joint
        ELSE trans(M_two, xyz_from_two_to_joint)

\* the joint position before scaling (lines 245-257)
xyz_of_joint(joint, transforms) ==
    LET xyz_from_one_to_joint == joint.originOne
        xyz_from_two_to_joint == joint.originTwo
        xyz_of_one            == translation(transforms[joint.occurrenceOne])
        M_two                 == transforms[joint.occurrenceTwo]
        case1 == allclose(xyz_from_two_to_joint, xyz_from_one_to_joint)
        case2 == allclose(xyz_from_two_to_joint, xyz_of_one)
    IN  IF case1 \/ case2 THEN xyz_from_two_to_joint
        ELSE trans(M_two, xyz_from_two_to_joint)

\* whether one of the two origin reads succeeds (lines 244-271)
HasOrigin(joint) == joint.avail \in {"both", "two"}

\* joint_dict['xyz'] when an origin can be read (lines 244-268)
Origin(joint, transforms) ==
    IF joint.avail = "both"
    THEN [i \in 1..3 |-> Round6Div100(xyz_of_joint(joint, transforms)[i])]
    ELSE [i \in 1..3 |-> Round6Div100(joint.originTwo[i])]

OriginError(joint) ==
    joint.name \o " doesn't have joint origin. Please set it and run again."

\* LoopBody storing the record before the origin is read
LoopBody_StoresEarly(nm, dict, m, joint, comps, transforms) ==
    IF LimitError(joint) # None
    THEN [nm |-> nm, joints_dict |-> dict, msg |-> LimitError(joint), broke |-> TRUE]
    ELSE LET ends == ResolveEnds(nm, joint, comps)
             f    == MotionFields(joint)
             rec  == [type        |-> f.type,
                      axis        |-> f.axis,
                      upper_limit |-> f.upper_limit,
                      lower_limit |-> f.lower_limit,
                      parent      |-> ends.parent,
                      child       |-> ends.child,
                      xyz         |-> IF HasOrigin(joint)
                                      THEN Origin(joint, transforms)
                                      ELSE <<0, 0, 0>>]
         IN  [nm |-> ends.nm,
              joints_dict |-> Put(dict, get_unique_joint_name(joint.name), rec),
              msg |-> IF HasOrigin(joint) THEN m ELSE OriginError(joint),
              broke |-> ~HasOrigin(joint)]

\* LoopBody resolving the names of the two ends before the limits are read
LoopBody_ResolvesFirst(nm, dict, m, joint, comps, transforms) ==
    LET ends == ResolveEnds(nm, joint, comps)
        xyz  == Origin(joint, transforms)
        f    == MotionFields(joint)
    IN  IF LimitError(joint) # None
        THEN [nm |-> ends.nm, joints_dict |-> dict,
              msg |-> LimitError(joint), broke |-> TRUE]
        ELSE IF ~HasOrigin(joint)
        THEN [nm |-> ends.nm, joints_dict |-> dict,
              msg |-> OriginError(joint), broke |-> TRUE]
        ELSE [nm |-> ends.nm,
              joints_dict |->
                  Put(dict, get_unique_joint_name(joint.name),
                      [type        |-> f.type,
                       axis        |-> f.axis,
                       upper_limit |-> f.upper_limit,
                       lower_limit |-> f.lower_limit,
                       parent      |-> ends.parent,
                       child       |-> ends.child,
                       xyz         |-> xyz]),
              msg |-> m, broke |-> FALSE]

\* one pass of the loop body over `joint` (lines 153-279): the manager, the
\* mapping and the message afterwards, and whether the loop was left by break
LoopBody(nm, dict, m, joint, comps, transforms) ==
    IF LimitError(joint) # None
    THEN [nm |-> nm, joints_dict |-> dict, msg |-> LimitError(joint), broke |-> TRUE]
    ELSE LET ends == ResolveEnds(nm, joint, comps)
             xyz  == Origin(joint, transforms)
             f    == MotionFields(joint)
         IN  IF ~HasOrigin(joint)
             THEN [nm |-> ends.nm, joints_dict |-> dict,
                   msg |-> OriginError(joint), broke |-> TRUE]
             ELSE [nm |-> ends.nm,
                   joints_dict |->
                       Put(dict, get_unique_joint_name(joint.name),
                           [type        |-> f.type,
                            axis        |-> f.axis,
                            upper_limit |-> f.upper_limit,
                            lower_limit |-> f.lower_limit,
                            parent      |-> ends.parent,
                            child       |-> ends.child,
                            xyz         |-> xyz]),
                   msg |-> m, broke |-> FALSE]

\* the component name of every occurrence, as the host gives it now
CompNameOf(o) == comp_names[all_occs[o]]

OccComps == [o \in DOMAIN all_occs |-> CompNameOf(o)]

\* make_joints_dict reads the next joint of root.joints and runs the loop
\* body on it; after a break or the last joint it returns (joints_dict, msg)
JointStep ==
    /\ pc = "joints"
    /\ Len(seen) < njoints
    /\ \E joint \in Scenes[scene].joints :
          LET r == LoopBody(name_manager, joints_dict, msg, joint,
                            OccComps, Scenes[scene].transform)
          IN  /\ name_manager' = r.nm
              /\ joints_dict' = r.joints_dict
              /\ msg' = r.msg
              /\ seen' = Append(seen, joint)
              /\ broke' = r.broke
              /\ pc' = IF r.broke \/ Len(seen) + 1 = njoints
                       THEN "joints_done" ELSE "joints"
    /\ UNCHANGED <<ret, last, issued, sceneVars, designVars, runVars>>

(* ------------------------------------------- the resolver driven freely *)

NoCall == [op |-> "none", hit |-> FALSE, other |-> FALSE]

\* the state every specification starts from, but for the design and pc
Fresh ==
    /\ name_manager = NewNameManager
    /\ ret = None
    /\ last = NoCall
    /\ issued = <<>>
    /\ comp_names = Scenes[scene].cname
    /\ all_occs = Scenes[scene].component
    /\ msg = success_msg
    /\ seen = <<>>
    /\ broke = FALSE
    /\ joints_dict = <<>>
    /\ inertial_dict = <<>>
    /\ calls = <<>>
    /\ shown = <<>>
    /\ exported_meshes = {}
    /\ export_pos = 0
    /\ export_log = <<>>

Init ==
    /\ scene = 1
    /\ njoints = 0
    /\ pc = "resolver"
    /\ Fresh

Known(o) == o \in DOMAIN name_manager.link_name_map

\* occurrence names are opaque dictionary keys: the next occurrence a caller
\* brings is the next unused number
FreshOrKnown(o) == Known(o) \/ o = Len(issued) + 1

\* the position in issued of the first resolution of occurrence o
FirstComp(o) == (CHOOSE i \in 1..Len(issued) : issued[i].occ = o)

\* a caller resolves the link name of occurrence o of component c
ResolveLinkName(o, c) ==
    /\ pc = "resolver"
    /\ FreshOrKnown(o)
    /\ LET r == get_unique_link_name(name_manager, o, c)
       IN  /\ name_manager' = r.nm
           /\ ret' = r.ret
           /\ last' = [op |-> "link", hit |-> Known(o),
                       other |-> Known(o) /\ issued[FirstComp(o)].comp # c]
           /\ issued' = IF Known(o) THEN issued
                        ELSE Append(issued, [occ |-> o, comp |-> c, name |-> r.ret])
    /\ UNCHANGED <<sceneVars, designVars, pc, jointVars, runVars>>

\* a caller asks for the mesh file name of component c
MeshFilename(c) ==
    /\ pc = "resolver"
    /\ \/ c \in DOMAIN name_manager.component_to_mesh
       \/ Cardinality(DOMAIN name_manager.component_to_mesh) < MaxMesh
    /\ LET r == get_mesh_filename(name_manager, c)
       IN  /\ name_manager' = r.nm
           /\ ret' = r.ret
           /\ last' = [op |-> "mesh",
                       hit |-> c \in DOMAIN name_manager.component_to_mesh,
                       other |-> FALSE]
    /\ UNCHANGED <<issued, sceneVars, designVars, pc, jointVars, runVars>>

Next ==
    \/ \E o \in Occs, c \in CompNames : ResolveLinkName(o, c)
    \/ \E c \in CompNames : MeshFilename(c)

Spec == Init /\ [][Next]_vars

(* ----------------------------------------------------------- the link pass *)
(* Link.make_inertial_dict: it walks root.occurrences and stores one        *)
(* record per occurrence under the link name the shared manager resolves.   *)

\* d[k] = ... on the keys of a dictionary, kept in insertion order
AddKey(keys, k) ==
    IF \E i \in 1..Len(keys) : keys[i] = k THEN keys ELSE Append(keys, k)

\* the message of a link that cannot be described
LinkError(o) == CompNameOf(o) \o " has no physical properties."

\* the link pass stores the record of the next occurrence
PopulateLink ==
    /\ pc = "links"
    /\ Len(issued) < Len(all_occs)
    /\ LET o == Len(issued) + 1
           r == get_unique_link_name(name_manager, o, CompNameOf(o))
       IN  /\ name_manager' = r.nm
           /\ ret' = r.ret
           /\ last' = [op |-> "link", hit |-> FALSE, other |-> FALSE]
           /\ issued' = Append(issued, [occ |-> o, comp |-> CompNameOf(o), name |-> r.ret])
           /\ inertial_dict' = AddKey(inertial_dict, r.ret)
    /\ UNCHANGED <<sceneVars, designVars, pc, jointVars,
                   calls, shown, exported_meshes, export_pos,
                   export_log>>

\* the link pass returns (inertial_dict, msg) after the last occurrence
MakeInertialReturns ==
    /\ pc = "links"
    /\ Len(issued) = Len(all_occs)
    /\ pc' = "links_done"
    /\ UNCHANGED <<nmVars, sceneVars, designVars, jointVars, runVars>>

\* the link pass stops at the next occurrence with a message
LinkFails ==
    /\ pc = "links"
    /\ Len(issued) < Len(all_occs)
    /\ msg' = LinkError(Len(issued) + 1)
    /\ pc' = "links_done"
    /\ UNCHANGED <<nmVars, sceneVars, designVars, seen, broke, joints_dict, runVars>>

(* ------------------------------------- make_joints_dict on a shared manager *)

\* make_joints_dict is called with the manager as the link pass left it,
\* be it after all occurrences, after some or after none
CallMakeJointsDict ==
    /\ pc = "links"
    /\ pc' = IF njoints = 0 THEN "joints_done" ELSE "joints"
    /\ joints_dict' = <<>>
    /\ UNCHANGED <<nmVars, sceneVars, designVars, msg, seen, broke, runVars>>

InitJoints ==
    /\ scene \in DOMAIN Scenes
    /\ njoints \in 0..MaxJoints
    /\ pc = "links"
    /\ Fresh

NextJoints == PopulateLink \/ CallMakeJointsDict \/ JointStep

SpecJoints == InitJoints /\ [][NextJoints]_vars

(* ---------------------------------------------------- copy_occs, export_stl *)

\* the occurrences copy_occs keeps (lines 53-70): those with a body, each
\* with the link name the manager resolves for it
RECURSIVE CollectOccs(_, _, _, _)
CollectOccs(nm, names, occs, o) ==
    IF o > Len(occs) THEN [nm |-> nm, info |-> <<>>]
    ELSE IF Scenes[scene].bodies[occs[o]] = 0
    THEN CollectOccs(nm, names, occs, o + 1)
    ELSE LET r    == get_unique_link_name(nm, o, names[occs[o]])
             rest == CollectOccs(r.nm, names, occs, o + 1)
         IN  [nm   |-> rest.nm,
              info |-> <<[component    |-> occs[o],
                          unique_name  |-> r.ret,
                          is_base_link |-> is_base_link(names[occs[o]])]>>
                       \o rest.info]

\* the name of the component copy_occs creates for an occurrence (lines 83-86)
NewComponentName(occ_info) ==
    IF occ_info.is_base_link THEN "base_link" ELSE occ_info.unique_name

\* utils.copy_occs: one new component and occurrence per kept occurrence,
\* then the original components renamed to old_component (the host calls
\* are taken to succeed)
CopyOccs ==
    /\ pc = "copy_occs"
    /\ LET c    == CollectOccs(name_manager, comp_names, all_occs, 1)
           n    == Len(comp_names)
           olds == {c.info[k].component : k \in 1..Len(c.info)}
       IN  /\ name_manager' = c.nm
           /\ all_occs' = all_occs \o [k \in 1..Len(c.info) |-> n + k]
           /\ comp_names' =
                 [i \in 1..(n + Len(c.info)) |->
                     IF i > n THEN NewComponentName(c.info[i - n])
                     ELSE IF i \in olds THEN "old_component"
                     ELSE comp_names[i]]
    /\ calls' = Append(calls, "copy_occs")
    /\ pc' = "export_stl"
    /\ UNCHANGED <<ret, last, issued, sceneVars, jointVars,
                   inertial_dict, shown, exported_meshes, export_pos,
                   export_log>>

\* utils.export_stl is called: the set of exported meshes starts empty
CallExportStl ==
    /\ pc = "export_stl"
    /\ calls' = Append(calls, "export_stl")
    /\ exported_meshes' = {}
    /\ export_pos' = 0
    /\ export_log' = <<>>
    /\ pc' = "exporting"
    /\ UNCHANGED <<nmVars, sceneVars, designVars, jointVars, inertial_dict, shown>>

\* what export_stl does at one occurrence
Visit(mesh, did) == [mesh |-> mesh, did |-> did]

\* ExportStep recording the mesh name before the export is executed
ExportStep_AddsFirst ==
    /\ pc = "exporting"
    /\ export_pos < Len(all_occs)
    /\ export_pos' = export_pos + 1
    /\ LET name == CompNameOf(export_pos + 1)
           r    == get_mesh_filename(name_manager, name)
       IN  IF Contains(name, "old_component")
           THEN /\ export_log' = Append(export_log, Visit(None, "old"))
                /\ UNCHANGED <<name_manager, ret, exported_meshes>>
           ELSE /\ name_manager' = r.nm
                /\ ret' = r.ret
                /\ IF r.ret \in exported_meshes
                   THEN /\ export_log' = Append(export_log, Visit(r.ret, "duplicate"))
                        /\ UNCHANGED exported_meshes
                   ELSE /\ exported_meshes' = exported_meshes \cup {r.ret}
                        /\ \E executed \in BOOLEAN :
                              export_log' =
                                  Append(export_log,
                                         Visit(r.ret, IF executed THEN "exported"
                                                      ELSE "failed"))
    /\ UNCHANGED <<last, issued, sceneVars, designVars, pc, jointVars,
                   inertial_dict, calls, shown>>

\* export_stl visits the next occurrence (lines 148-180); the host's export
\* succeeds or raises
ExportStep ==
    /\ pc = "exporting"
    /\ export_pos < Len(all_occs)
    /\ export_pos' = export_pos + 1
    /\ LET name == CompNameOf(export_pos + 1)
           r    == get_mesh_filename(name_manager, name)
       IN  IF Contains(name, "old_component")
           THEN /\ export_log' = Append(export_log, Visit(None, "old"))
                /\ UNCHANGED <<name_manager, ret, exported_meshes>>
           ELSE /\ name_manager' = r.nm
                /\ ret' = r.ret
                /\ IF r.ret \in exported_meshes
                   THEN /\ export_log' = Append(export_log, Visit(r.ret, "duplicate"))
                        /\ UNCHANGED exported_meshes
                   ELSE \E executed \in BOOLEAN :
                           IF executed
                           THEN /\ exported_meshes' = exported_meshes \cup {r.ret}
                                /\ export_log' = Append(export_log, Visit(r.ret, "exported"))
                           ELSE /\ exported_meshes' = exported_meshes
                                /\ export_log' = Append(export_log, Visit(r.ret, "failed"))
    /\ UNCHANGED <<last, issued, sceneVars, designVars, pc, jointVars,
                   inertial_dict, calls, shown>>

(* ------------------------------------------------------------------- run *)

\* the output functions run() calls in lines 169-181, in order
OutputCalls ==
    <<"write_urdf", "write_materials_xacro", "write_transmissions_xacro",
      "write_gazebo_xacro", "write_display_launch", "write_gazebo_launch",
      "write_control_launch", "write_yaml",
      "copy_package", "update_cmakelists", "update_package_xml">>

Failed == "Failed:\n<traceback>"

\* lines 146-147
FoundMsg(candidate) ==
    "Found component \"" \o candidate
    \o "\" but it should be named exactly \"base_link\" (without version numbers).\n\n"
    \o "The exporter has automatically handled this, but please rename your component to \"base_link\" in Fusion 360 for clarity."

\* lines 150-152
NoBaseLinkMsg ==
    "There is no base_link component found.\n\n"
    \o "Please create a component named \"base_link\" and run again.\n"
    \o "Note: The component name should start with \"base_link\" (case insensitive)."

IsCandidate(key) == StartsWith(lower(key), "base_link")

\* base_link_candidates (lines 142-143)
base_link_candidates == SelectSeq(inertial_dict, IsCandidate)

\* lines 95-126: no design, the folder dialog cancelled, or the pass begins
RunStart ==
    /\ pc = "start"
    /\ \E design \in BOOLEAN, save_dir \in BOOLEAN :
          IF ~design
          THEN /\ shown' = Append(shown, "No active Fusion design")
               /\ pc' = "returned"
          ELSE IF ~save_dir
          THEN /\ shown' = Append(shown, "Fusion2URDF was canceled")
               /\ pc' = "returned"
          ELSE /\ shown' = shown
               /\ pc' = "links"
    /\ UNCHANGED <<nmVars, sceneVars, designVars, jointVars,
                   inertial_dict, calls, exported_meshes, export_pos,
                   export_log>>

\* lines 133-157: the message of the link pass and the base link are
\* checked, then make_joints_dict is called
CheckLinks ==
    /\ pc = "links_done"
    /\ IF msg # success_msg
       THEN /\ shown' = Append(shown, msg)
            /\ pc' = "returned"
            /\ UNCHANGED <<msg, joints_dict>>
       ELSE IF \E i \in 1..Len(inertial_dict) : inertial_dict[i] = "base_link"
       THEN /\ pc' = IF njoints = 0 THEN "joints_done" ELSE "joints"
            /\ joints_dict' = <<>>
            /\ UNCHANGED <<msg, shown>>
       ELSE IF base_link_candidates # <<>>
       THEN /\ msg' = FoundMsg(base_link_candidates[1])
            /\ shown' = Append(shown, FoundMsg(base_link_candidates[1]))
            /\ pc' = IF njoints = 0 THEN "joints_done" ELSE "joints"
            /\ joints_dict' = <<>>
       ELSE /\ msg' = NoBaseLinkMsg
            /\ shown' = Append(shown, NoBaseLinkMsg)
            /\ pc' = "returned"
            /\ UNCHANGED joints_dict
    /\ UNCHANGED <<nmVars, sceneVars, designVars, seen, broke,
                   inertial_dict, calls, exported_meshes, export_pos,
                   export_log>>

\* run() going on to the output whatever make_joints_dict returned
CheckJoints_Proceeds ==
    /\ pc = "joints_done"
    /\ shown' = shown
    /\ pc' = "write"
    /\ UNCHANGED <<nmVars, sceneVars, designVars, jointVars,
                   inertial_dict, calls, exported_meshes, export_pos,
                   export_log>>

\* lines 158-165: the message make_joints_dict returned is checked
CheckJoints ==
    /\ pc = "joints_done"
    /\ IF msg # success_msg
       THEN /\ shown' = Append(shown, msg)
            /\ pc' = "returned"
       ELSE /\ shown' = shown
            /\ pc' = "write"
    /\ UNCHANGED <<nmVars, sceneVars, designVars, jointVars,
                   inertial_dict, calls, exported_meshes, export_pos,
                   export_log>>

\* lines 169-181: the next output function is called; it returns or raises
WriteStep ==
    /\ pc = "write"
    /\ calls' = Append(calls, OutputCalls[Len(calls) + 1])
    /\ \E raises \in BOOLEAN :
          IF raises
          THEN /\ shown' = Append(shown, Failed)
               /\ pc' = "returned"
          ELSE /\ shown' = shown
               /\ pc' = IF Len(calls) + 1 = Len(OutputCalls)
                        THEN "copy_occs" ELSE "write"
    /\ UNCHANGED <<nmVars, sceneVars, designVars, jointVars,
                   inertial_dict, exported_meshes, export_pos,
                   export_log>>

\* line 187: export_stl has returned and the message is shown
RunEnds ==
    /\ pc = "exporting"
    /\ export_pos = Len(all_occs)
    /\ shown' = Append(shown, msg)
    /\ pc' = "returned"
    /\ UNCHANGED <<nmVars, sceneVars, designVars, jointVars,
                   inertial_dict, calls, exported_meshes, export_pos,
                   export_log>>

InitRun ==
    /\ scene \in DOMAIN Scenes
    /\ njoints \in 0..MaxRunJoints
    /\ pc = "start"
    /\ Fresh

NextRun ==
    \/ RunStart
    \/ PopulateLink \/ MakeInertialReturns \/ LinkFails
    \/ CheckLinks
    \/ JointStep
    \/ CheckJoints
    \/ WriteStep
    \/ CopyOccs
    \/ CallExportStl \/ ExportStep
    \/ RunEnds

SpecRun == InitRun /\ [][NextRun]_vars

(* ================================================================ claims *)

link_name_map == name_manager.link_name_map

\* clean_name of every component name a caller passes, computed once
Cleaned == [c \in CompNames |-> clean_name(c)]

\* how many of the first i-1 resolutions passed a component cleaning to b
Earlier(i, b) == Cardinality({j \in 1..(i - 1) : Cleaned[issued[j].comp] = b})

\* how many of the first i-1 resolutions passed a base-link component name
EarlierBaseLinks(i) == Cardinality({j \in 1..(i - 1) : is_base_link(issued[j].comp)})

\* the names issued before the i-th resolution
IssuedBefore(i) == {issued[j].name : j \in 1..(i - 1)}

\* C1: any two distinct occurrence ids are mapped to different link names
\* (link_name_map is injective in every reachable state).
C1_Uniqueness ==
    \A o1, o2 \in DOMAIN link_name_map :
        o1 # o2 => link_name_map[o1] # link_name_map[o2]

\* C2: the first occurrence whose raw component name has first
\* whitespace-delimited token base_link (case-insensitively) gets the bare
\* name base_link, later such occurrences get base_link_1, base_link_2, ...
\* ("base_link v2" on a fresh resolver yields "base_link").
C2_BaseLinkPrecedence ==
    \A i \in 1..Len(issued) :
        is_base_link(issued[i].comp) =>
            issued[i].name = IF EarlierBaseLinks(i) = 0 THEN "base_link"
                             ELSE Suffixed("base_link", EarlierBaseLinks(i))

\* C4: a call never changes an entry link_name_map already holds, and a
\* get_unique_link_name call for an occurrence already in the map returns the
\* name held for it, whatever component name is passed, and leaves
\* link_name_map, used_names and link_name_counts as they were.
C4_Idempotent ==
    [][ /\ \A o \in DOMAIN link_name_map :
              /\ o \in DOMAIN name_manager'.link_name_map
              /\ name_manager'.link_name_map[o] = link_name_map[o]
        /\ \A o \in Occs, c \in CompNames :
              (Known(o) /\ ResolveLinkName(o, c)) =>
                  /\ ret' = link_name_map[o]
                  /\ name_manager' = name_manager ]_vars

\* C4 witness: an occurrence was resolved again with another component name
\* and got the name it already had.
C4_Witness ==
    /\ last.op = "link" /\ last.hit /\ last.other
    /\ \E i \in 1..Len(issued) : issued[i].name = ret /\ issued[i].comp = "arm"

\* C5 as stated: the first distinct occurrence whose component cleans to b
\* (b other than base_link) receives the bare name b, the second b_1, the
\* third b_2, and so on in call order.
C5_SequenceAsStated ==
    \A i \in 1..Len(issued) :
        LET b == Cleaned[issued[i].comp]
        IN  b # "base_link" =>
                issued[i].name = IF Earlier(i, b) = 0 THEN b
                                 ELSE Suffixed(b, Earlier(i, b))

\* the index of the first resolution whose component cleans to b
FirstOf(b) == CHOOSE i \in 1..Len(issued) :
                  Cleaned[issued[i].comp] = b /\ Earlier(i, b) = 0

\* C5 amended: the first occurrence whose component cleans to b (b other than
\* base_link) receives the bare name b unless b was already issued as a link
\* name, in which case it receives b_1; each later one receives the suffix of
\* its predecessor plus one (the bare name counting as suffix 0).
C5_Sequence ==
    \A i \in 1..Len(issued) :
        LET b     == Cleaned[issued[i].comp]
            f     == FirstOf(b)
            start == IF b \in IssuedBefore(f) THEN 1 ELSE 0
            n     == start + Earlier(i, b)
        IN  b # "base_link" =>
                issued[i].name = IF n = 0 THEN b ELSE Suffixed(b, n)

\* C5 witness: three occurrences of components cleaning to arm got arm, arm_1
\* and arm_2 in call order.
C5_Witness ==
    /\ Len(issued) = 3
    /\ \A i \in 1..3 : Cleaned[issued[i].comp] = "arm"
    /\ issued[1].name = "arm" /\ issued[2].name = "arm_1" /\ issued[3].name = "arm_2"

\* C6: at most one occurrence id is mapped to the literal name base_link, and
\* every further occurrence whose component cleans to base_link is mapped to
\* base_link_N with N >= 1.
C6_SingleBaseLink ==
    /\ Cardinality({o \in DOMAIN link_name_map : link_name_map[o] = "base_link"}) <= 1
    /\ \A i \in 1..Len(issued) :
          Cleaned[issued[i].comp] = "base_link" =>
              IF Earlier(i, "base_link") = 0
              THEN issued[i].name = "base_link"
              ELSE \E N \in 1..MaxOccs : issued[i].name = Suffixed("base_link", N)

\* C6 witness: two occurrences of a component cleaning to base_link were
\* resolved; one holds base_link and the other base_link_1.
C6_Witness ==
    /\ Len(issued) >= 2
    /\ Cleaned[issued[1].comp] = "base_link" /\ issued[1].name = "base_link"
    /\ Cleaned[issued[2].comp] = "base_link" /\ issued[2].name = "base_link_1"

\* C7: get_mesh_filename(c) always returns clean_name(c), with no
\* disambiguation suffix, however many link names were issued for c, and it
\* changes only component_to_mesh (in every state the resolver reaches, for
\* every component name, and for every name it has stored).
C7_MeshSharing ==
    /\ \A c \in CompNames :
          LET r == get_mesh_filename(name_manager, c)
          IN  /\ r.ret = Cleaned[c]
              /\ r.nm.component_to_mesh[c] = Cleaned[c]
              /\ r.nm.link_name_map = name_manager.link_name_map
              /\ r.nm.link_name_counts = name_manager.link_name_counts
              /\ r.nm.used_names = name_manager.used_names
    /\ \A c \in DOMAIN name_manager.component_to_mesh :
          name_manager.component_to_mesh[c] = Cleaned[c]
    /\ last.op = "mesh" =>
          \E c \in DOMAIN name_manager.component_to_mesh : ret = Cleaned[c]

\* C7 witness: the mesh name of a component was asked for after two
\* occurrences of it had got different link names, and it is the bare
\* cleaned name.
C7_Witness ==
    /\ last.op = "mesh"
    /\ \E c \in DOMAIN name_manager.component_to_mesh :
          /\ ret = name_manager.component_to_mesh[c]
          /\ ret = "arm_1"
          /\ \E i, j \in 1..Len(issued) :
                /\ i # j /\ issued[i].comp = c /\ issued[j].comp = c
                /\ issued[i].name # issued[j].name

(* ------------------------------------------- claims on make_joints_dict *)

\* clean_name of every joint name of the designs, computed once
CleanedJoint ==
    [n \in UNION {{j.name : j \in Scenes[sc].joints} : sc \in DOMAIN Scenes}
        |-> clean_name(n)]

\* the key of the i-th joint read (get_unique_joint_name of its name)
Key(i) == CleanedJoint[seen[i].name]

\* exactly one of the two limits of a revolute or prismatic joint is enabled
OneSided(joint) ==
    /\ joint.jointType \in {1, 2}
    /\ joint.isMaximumValueEnabled # joint.isMinimumValueEnabled

\* the joint has a validation violation: a one-sided limit or no origin
Violates(joint) == OneSided(joint) \/ joint.avail = "none"

\* the joints whose record make_joints_dict stored, by position in root.joints
Stored == {i \in 1..Len(seen) : ~(broke /\ i = Len(seen))}

\* the stored joints whose record was not overwritten by a later one
Kept == {i \in Stored :
            \A j \in Stored : j > i => Key(j) # Key(i)}

\* C3: for every stored joint record the child field equals the link name
\* the resolver holds for the joint's occurrenceOne, and the parent field
\* equals the link name the resolver holds for occurrenceTwo (stated for the
\* records whose occurrenceTwo the resolver holds a name for).
C3_NameAgreement ==
    \A i \in Kept :
        LET rec == joints_dict[Key(i)]
        IN  /\ seen[i].occurrenceOne \in DOMAIN link_name_map
            /\ rec.child = link_name_map[seen[i].occurrenceOne]
            /\ seen[i].occurrenceTwo \in DOMAIN link_name_map =>
                  rec.parent = link_name_map[seen[i].occurrenceTwo]

\* C8: a revolute or prismatic joint with exactly one limit enabled makes
\* make_joints_dict stop and return a message that starts with the joint's
\* name and names the missing bound: "lower limit" when only the upper one
\* is enabled, "upper limit" when only the lower one is.
C8_AsymmetricLimit ==
    \A i \in 1..Len(seen) :
        OneSided(seen[i]) =>
            /\ i = Len(seen) /\ broke /\ pc = "joints_done"
            /\ StartsWith(msg, seen[i].name)
            /\ IF seen[i].isMaximumValueEnabled
               THEN Contains(msg, "lower limit") /\ ~Contains(msg, "upper limit")
               ELSE Contains(msg, "upper limit") /\ ~Contains(msg, "lower limit")

\* C8 witness: a prismatic joint with only its lower limit enabled was read
\* after a stored joint, and the run of the loop ended with its message.
C8_Witness ==
    /\ Len(seen) = 2 /\ broke
    /\ seen[2].jointType = 2
    /\ seen[2].isMinimumValueEnabled /\ ~seen[2].isMaximumValueEnabled
    /\ msg = "Slider:2 is not set its upper limit. Please set it and try again."

\* C9: on the first joint with a validation violation make_joints_dict ends:
\* no later joint is read, no record is stored for the failing joint, and
\* the records of the joints before it are the returned mapping.
C9_ValidationHalt ==
    /\ \A i \in 1..Len(seen) :
          Violates(seen[i]) => i = Len(seen) /\ broke /\ pc = "joints_done"
    /\ broke => Len(seen) > 0 /\ Violates(seen[Len(seen)])
    /\ pc \in {"joints", "joints_done"} =>
          /\ DOMAIN joints_dict =
                {Key(i) : i \in 1..Len(seen) \ {j \in 1..Len(seen) : Violates(seen[j])}}
          /\ \A i \in Kept :
                LET rec == joints_dict[Key(i)]
                IN  /\ rec.type = MotionFields(seen[i]).type
                    /\ rec.upper_limit = MotionFields(seen[i]).upper_limit

\* C9 witness: of three joints the first was stored, the second had a
\* violation and the third was never read; the mapping holds the first
\* joint's record only.
C9_Witness ==
    /\ njoints = 3 /\ Len(seen) = 2 /\ broke /\ pc = "joints_done"
    /\ seen[1].name = "Rev 1" /\ seen[2].name = "Slider:2"
    /\ seen[2].avail = "none" /\ ~OneSided(seen[2])
    /\ DOMAIN joints_dict = {"rev_1"}

(* ------------------------------------------------------- claims on run() *)

\* the link pass returned a message other than the success message
LinkFailed == Contains(msg, "has no physical properties")

\* no key of inertial_dict is the base link's name
NoBaseLink == \A i \in 1..Len(inertial_dict) : inertial_dict[i] # "base_link"

\* C10: in run(), if the link pass or the joint pass returns a message other
\* than the success message, or no link name identifies a base link, none of
\* the output functions (Write.*, copy_package, update_cmakelists,
\* update_package_xml, copy_occs, export_stl) is called; they are called only
\* after both passes have finished successfully.
C10_AbortBeforeWrite ==
    /\ (LinkFailed \/ broke \/ msg # success_msg
        \/ (pc \notin {"start", "links"} /\ NoBaseLink)) => calls = <<>>
    /\ calls # <<>> =>
          /\ Len(issued) = Len(Scenes[scene].component)
          /\ Len(seen) = njoints /\ ~broke
          /\ msg = success_msg
          /\ ~NoBaseLink
          /\ pc \in {"write", "copy_occs", "export_stl", "exporting", "returned"}

\* C10 witness: the joint pass stopped at its second joint with a message,
\* run() showed it and returned, and no output function was called.
C10_Witness ==
    /\ pc = "returned" /\ broke /\ Len(seen) = 2
    /\ ~NoBaseLink
    /\ msg # success_msg /\ shown = <<msg>>
    /\ calls = <<>>

(* ------------------------------------------- the records of the joints *)

\* the record stored for the i-th joint read
RecordOf(i) == joints_dict[Key(i)]

\* a stored value (1e-6) is the input value (1e-7) rounded, not rescaled
Unscaled(stored, input) == Abs(10 * stored - input) <= 5

\* C11: a revolute joint with both rotation limits disabled is stored with
\* type "continuous", its axis the joint's rotation axis and both limits 0;
\* a revolute joint with both limits enabled keeps type "revolute" and
\* stores both limit values unscaled.
C11_Continuous ==
    \A i \in Kept :
        LET joint == seen[i]
            rec   == RecordOf(i)
        IN  joint.jointType = 1 =>
               /\ \A k \in 1..3 : Unscaled(rec.axis[k], joint.axisVector[k])
               /\ IF ~joint.isMaximumValueEnabled /\ ~joint.isMinimumValueEnabled
                  THEN /\ rec.type = "continuous"
                       /\ rec.upper_limit = 0 /\ rec.lower_limit = 0
                  ELSE /\ joint.isMaximumValueEnabled /\ joint.isMinimumValueEnabled
                       /\ rec.type = "revolute"
                       /\ Unscaled(rec.upper_limit, joint.maximumValue)
                       /\ Unscaled(rec.lower_limit, joint.minimumValue)

\* C11 witness: a revolute joint with both limits enabled was stored, and
\* after it a revolute joint without limits, which is stored as continuous
\* with axis (0, 0, 1).
C11_Witness ==
    /\ Len(seen) = 2 /\ ~broke
    /\ seen[1].jointType = 1 /\ seen[1].isMaximumValueEnabled
    /\ seen[2].jointType = 1 /\ ~seen[2].isMaximumValueEnabled
    /\ joints_dict["rev_1"].type = "continuous"
    /\ joints_dict["rev_1"].axis = <<0, 0, 1000000>>
    /\ joints_dict["rev_1"].upper_limit = 0

\* the occurrences' component names in the design make_joints_dict reads
RawName(o) == Scenes[scene].cname[Scenes[scene].component[o]]

\* C12: the parent of a stored joint comes from occurrenceTwo and the child
\* from occurrenceOne; a parent whose raw component name has first token
\* base_link is "base_link" whatever the resolver holds; any other endpoint
\* has the name the resolver held for it, or, when it held none, the name
\* get_unique_link_name assigns to it at that moment.
C12_ParentChild ==
    [][ (pc = "joints" /\ ~broke') =>
          LET joint == seen'[Len(seen')]
              rec   == joints_dict'[CleanedJoint[joint.name]]
              two   == joint.occurrenceTwo
              one   == joint.occurrenceOne
              p     == IF Known(two) THEN [nm |-> name_manager, ret |-> link_name_map[two]]
                       ELSE get_unique_link_name(name_manager, two, RawName(two))
              nm1   == IF is_base_link(RawName(two)) THEN name_manager ELSE p.nm
              c     == IF one \in DOMAIN nm1.link_name_map
                       THEN [nm |-> nm1, ret |-> nm1.link_name_map[one]]
                       ELSE get_unique_link_name(nm1, one, RawName(one))
          IN  /\ rec.parent = IF is_base_link(RawName(two)) THEN "base_link" ELSE p.ret
              /\ rec.child = c.ret
              /\ name_manager' = c.nm
              /\ name_manager'.link_name_map[one] = rec.child
              /\ ~is_base_link(RawName(two)) =>
                    name_manager'.link_name_map[two] = rec.parent ]_vars

\* C12 witness: with nothing resolved beforehand, a joint from the versioned
\* base link to the second occurrence of arm was stored after one to the
\* first: the parent is base_link, the child the lazily assigned arm_1.
C12_Witness ==
    /\ scene = 1 /\ issued = <<>> /\ Len(seen) = 2 /\ ~broke
    /\ seen[2].occurrenceTwo = 1 /\ seen[2].occurrenceOne = 3
    /\ joints_dict["rigid_1"].parent = "base_link"
    /\ joints_dict["rigid_1"].child = "arm_1"
    /\ link_name_map = (2 :> "arm") @@ (3 :> "arm_1")

(* ------------------------------------------------ claims on the meshes *)

\* the occurrences of the design before copy_occs
Originals == 1..Len(Scenes[scene].component)

\* the component of an original occurrence has a body
HasBody(o) == Scenes[scene].bodies[Scenes[scene].component[o]] > 0

\* the original occurrences copy_occs copies, in order: its k-th new
\* occurrence is the copy of the k-th of them
Copied == SelectSeq([o \in Originals |-> o], HasBody)

\* export_stl has visited every occurrence and no export raised
ExportedAll ==
    /\ pc = "returned"
    /\ Len(export_log) = Len(all_occs)
    /\ Len(all_occs) = Len(Scenes[scene].component) + Len(Copied)
    /\ \A i \in 1..Len(export_log) : export_log[i].did # "failed"

\* the visits at which a mesh file was written for a copy of an occurrence
\* of component c
ExportsOf(c) ==
    {i \in 1..Len(export_log) :
        /\ export_log[i].did = "exported"
        /\ i > Len(Scenes[scene].component)
        /\ Scenes[scene].component[Copied[i - Len(Scenes[scene].component)]] = c}

\* C13: in one run (copy_occs, then export_stl with the shared manager) the
\* occurrences with bodies of one component result in exactly one exported
\* mesh file, however many they are.
C13_OneMeshPerComponent ==
    ExportedAll =>
        \A c \in {Scenes[scene].component[Copied[k]] : k \in 1..Len(Copied)} :
            Cardinality(ExportsOf(c)) = 1

\* the link pass has stored every occurrence and returned the success message
LinksDone ==
    /\ Len(issued) = Len(Scenes[scene].component)
    /\ ~LinkFailed

\* C14: when no link is named exactly base_link but some link name starts
\* with base_link, the user is only notified and the export goes on: the
\* joint pass runs and, if it reports no validation error, the files are
\* written and the meshes exported.
C14_VersionedBaseLink ==
    (/\ pc = "returned"
     /\ LinksDone
     /\ NoBaseLink /\ base_link_candidates # <<>>
     /\ Len(seen) = njoints /\ ~broke)
    => /\ Len(calls) > 0
       /\ calls[1] = "write_urdf"

\* the mesh names written before the i-th visit of export_stl
ExportedBefore(i) ==
    {export_log[j].mesh : j \in {k \in 1..(i - 1) : export_log[k].did = "exported"}}

\* C15: during one export_stl call an export is attempted for an occurrence
\* if and only if its component is not marked old_component and its mesh
\* name is not yet in the exported set; a name enters the set only when its
\* export succeeds, so no mesh name is exported twice; and a failed export
\* does not stop the traversal of the remaining occurrences.
C15_ExportDedup ==
    /\ \A i \in 1..Len(export_log) :
          LET old  == Contains(CompNameOf(i), "old_component")
              mesh == get_mesh_filename(name_manager, CompNameOf(i)).ret
          IN  /\ export_log[i].did \in {"exported", "failed"}
                    <=> (~old /\ mesh \notin ExportedBefore(i))
              /\ ~old => export_log[i].mesh = mesh
    /\ exported_meshes = ExportedBefore(Len(export_log) + 1)
    /\ \A i, j \in 1..Len(export_log) :
          (/\ i # j
           /\ export_log[i].did = "exported"
           /\ export_log[j].did = "exported") => export_log[i].mesh # export_log[j].mesh
    /\ (pc = "returned" /\ export_log # <<>>) => Len(export_log) = Len(all_occs)

\* C15 witness: export_stl has returned; one export was skipped as a
\* duplicate, one failed, and the occurrence after the failed one was
\* exported.
C15_Witness ==
    /\ pc = "returned"
    /\ \E i, j \in 1..Len(export_log) :
          /\ export_log[i].did = "duplicate"
          /\ export_log[j].did = "failed"
          /\ j < Len(export_log)
          /\ export_log[j + 1].did = "exported"

\* C16: when make_joints_dict succeeds on n joints with pairwise different
\* raw names, the returned joints_dict has exactly n records.
C16_NoRecordLost ==
    (/\ pc = "joints_done" /\ ~broke
     /\ \A i, j \in 1..Len(seen) : i # j => seen[i].name # seen[j].name)
    => Cardinality(DOMAIN joints_dict) = Len(seen)

(* ------------------------------------------- the resolver and a failing joint *)

\* the three name tables of a manager
NameTables(nm) == <<nm.link_name_map, nm.link_name_counts, nm.used_names>>

\* C17 as stated: when make_joints_dict halts on a joint with a validation
\* error (one-sided limit or missing origin), link_name_map, link_name_counts
\* and used_names are as they were just before that joint was processed.
C17_UntouchedAsStated ==
    [][ (pc = "joints" /\ broke') =>
            NameTables(name_manager') = NameTables(name_manager) ]_vars

\* C17 amended: a joint rejected for a one-sided limit leaves the three name
\* tables as they were; a joint rejected for a missing origin leaves every
\* entry link_name_map held as it was, and the only entries added are those
\* of its own two occurrences (none for a base-link parent), each with the
\* name get_unique_link_name assigns at that moment.
C17_FailingJoint ==
    [][ (pc = "joints" /\ broke') =>
          LET joint == seen'[Len(seen')]
              two   == joint.occurrenceTwo
              one   == joint.occurrenceOne
              new   == DOMAIN name_manager'.link_name_map \ DOMAIN link_name_map
              mine  == IF is_base_link(RawName(two)) THEN {one} ELSE {one, two}
          IN  IF OneSided(joint)
              THEN NameTables(name_manager') = NameTables(name_manager)
              ELSE /\ \A o \in DOMAIN link_name_map :
                         name_manager'.link_name_map[o] = link_name_map[o]
                   /\ new = mine \ DOMAIN link_name_map
                   /\ name_manager'.used_names =
                         name_manager.used_names
                         \cup {name_manager'.link_name_map[o] : o \in new}
                   /\ name_manager'.component_to_mesh = name_manager.component_to_mesh ]_vars

\* C17 witness: with nothing resolved beforehand the first joint was
\* rejected for its missing origin, and the resolver holds names for its two
\* occurrences.
C17_Witness ==
    /\ scene = 2 /\ issued = <<>>
    /\ Len(seen) = 1 /\ broke
    /\ seen[1].avail = "none" /\ ~OneSided(seen[1])
    /\ link_name_map = <<"base_link", "arm_1">>

(* --------------------------------------------------- the joint's origin *)

\* two points are equal on every axis within 1e-6
Within(a, b) == \A k \in 1..3 : Abs(a[k] - b[k]) < Tol

\* a stored point (1e-6 m) is the point v (1e-7 cm) divided by 100
Div100(stored, v) == \A k \in 1..3 : Abs(1000 * stored[k] - v[k]) <= 500

\* the rotation block of M applied to p, then the translation column added
Transformed(M, p) ==
    <<M[1] * p[1] + M[2] * p[2] + M[3] * p[3] + M[4],
      M[5] * p[1] + M[6] * p[2] + M[7] * p[3] + M[8],
      M[9] * p[1] + M[10] * p[2] + M[11] * p[3] + M[12]>>

\* C18: when the origin relative to the parent equals the origin relative to
\* the child within 1e-6 on every axis, or equals the child occurrence's
\* translation within 1e-6, the stored xyz is that parent-relative point
\* divided by 100, untransformed; otherwise, and only then, it is the point
\* transformed by the parent occurrence's matrix, divided by 100.
C18_OriginSelection ==
    \A i \in Kept :
        LET joint  == seen[i]
            parent == Scenes[scene].transform[joint.occurrenceTwo]
            child  == Scenes[scene].transform[joint.occurrenceOne]
            p      == joint.originTwo
        IN  joint.avail = "both" =>
               IF Within(p, joint.originOne) \/ Within(p, <<child[4], child[8], child[12]>>)
               THEN Div100(RecordOf(i).xyz, p)
               ELSE Div100(RecordOf(i).xyz, Transformed(parent, p))

\* C18 witness: under a turned and moved parent, a joint whose
\* parent-relative origin lies at the child's translation (and away from the
\* child-relative origin) was stored untransformed, after one whose origins
\* differ by the tolerance on one axis, which was stored transformed.
C18_Witness ==
    /\ scene = 6 /\ Len(seen) = 2 /\ ~broke /\ njoints = 3
    /\ seen[1].originTwo = Point /\ seen[1].originOne[1] = Point[1] + 10
    /\ seen[2].originTwo = <<ChildAt[1], ChildAt[2] + 5, ChildAt[3] - 9>>
    /\ joints_dict["rigid_1"].xyz = <<100000, 0, 0>>

====
